---- MODULE Spec2Model ----
(***************************************************************************)
(* A model of openvpn/common/redir.hpp: the stream set RedirectStdFD       *)
(* (redirect, close), the pipe redirector RedirectPipe (constructor,       *)
(* transact) and its stream drivers SD_OUT and SD_IN, run against a child  *)
(* process connected through POSIX pipes.                                  *)
(*                                                                         *)
(* A process's descriptor table maps a descriptor number to the open file  *)
(* it refers to.  A pipe is a bounded byte queue with a read end and a     *)
(* write end; a read sees end-of-file once the queue is empty and no       *)
(* descriptor of any process refers to the write end, a write fails with   *)
(* EPIPE once no descriptor refers to the read end.                        *)
(***************************************************************************)
EXTENDS Integers, Sequences, FiniteSets, TLC

(* ------------------------------ bounds -------------------------------- *)

\* Highest descriptor number of a process (descriptors are 0..MaxFd).
MaxFd == 14

\* Longest input handed to transact when the child echoes.
MaxLen == 6

\* Longest input handed to transact when the child is an arbitrary program.
MaxFreeLen == 2

\* Capacity of a pipe's kernel buffer, in bytes.
PipeCap == 2

\* Largest number of bytes one async_write_some is offered.  The source
\* says 2048 (line 274); the model scales it down so that inputs longer
\* than one chunk occur within MaxLen.
WriteChunk == 2

\* Size of the buffer one async_read_some fills.  The source says 2048
\* (line 307); scaled down so that a pipe can hold more than one chunk.
ReadChunk == 1

\* Most bytes an arbitrary child program writes to its slots 1 and 2.
MaxChildOut == 2

\* Most operations applied to a lone descriptor handle.
MaxOps == 5

(* --------------------------- descriptors ------------------------------ *)

Fds == 0..MaxFd
Byte == {0, 1}
Pipes == {"in", "out", "err"}

\* What a descriptor refers to.
None == [k |-> "none", p |-> "", n |-> 0]
File(i) == [k |-> "file", p |-> "", n |-> i]
Null == [k |-> "null", p |-> "", n |-> 0]
ReadEnd(p) == [k |-> "R", p |-> p, n |-> 0]
WriteEnd(p) == [k |-> "W", p |-> p, n |-> 0]

ZeroCount == [fd \in Fds |-> 0]

\* close(2) on a table: an open descriptor becomes free, anything else is EBADF.
OsClose(tab, fd) ==
  IF fd \in Fds /\ tab[fd] # None THEN [tab EXCEPT ![fd] = None] ELSE tab

\* The lowest free descriptors of a table, as open(2) and pipe(2) choose them.
FreeFds(tab) == {fd \in Fds : tab[fd] = None}
LowestFree(tab) == CHOOSE fd \in FreeFds(tab) : \A g \in FreeFds(tab) : fd <= g

(* ------------------------------ ScopedFD ------------------------------ *)

\* A stream set: three descriptor handles (-1: undefined) and the flag.
UndefinedFd == -1
NoHandles == [in |-> UndefinedFd, out |-> UndefinedFd, err |-> UndefinedFd,
              combine_out_err |-> FALSE]
Slots == {"in", "out", "err"}

Defined(h, f) == h[f] >= 0

(***************************************************************************)
(* A machine is the part of a process that the code below acts on:         *)
(*   tab    the descriptor table                                           *)
(*   cx     the descriptors marked close-on-exec                           *)
(*   loc    the stream set the code runs on (this)                         *)
(*   rem    the remote stream set (the constructor's first argument)       *)
(*   ncl    per descriptor number, how often close(2) was called on it     *)
(*   fd0, fd1   the constructor's int fd[2]                                *)
(*   npipe, ncx  calls of pipe(2) and fcntl(F_SETFD) made so far           *)
(*   made   the pipes created so far                                       *)
(*   thrown an exception is propagating                                    *)
(***************************************************************************)
Machine(tab, cx, loc, rem, ncl) ==
  [tab |-> tab, cx |-> cx, loc |-> loc, rem |-> rem, ncl |-> ncl,
   fd0 |-> UndefinedFd, fd1 |-> UndefinedFd, npipe |-> 0, ncx |-> 0,
   made |-> {}, thrown |-> FALSE]

\* ::close(fd) as a handle calls it.
MClose(m, fd) ==
  [m EXCEPT !.tab = OsClose(m.tab, fd),
            !.cx = m.cx \ {fd},
            !.ncl = [m.ncl EXCEPT ![fd] = @ + 1]]

\* ScopedFD::close on handle f of stream set s ("loc" or "rem").
SfdClose(m, s, f) ==
  IF Defined(m[s], f)
    THEN [MClose(m, m[s][f]) EXCEPT ![s][f] = UndefinedFd]
    ELSE m

\* A release that leaves the handle owning its descriptor.
SfdRelease_StillOwns(m, s, f) == m

\* ScopedFD::release.
SfdRelease(m, s, f) == [m EXCEPT ![s][f] = UndefinedFd]

\* ScopedFD::reset(fd): closes the descriptor owned before, then owns fd.
SfdReset(m, s, f, fd) ==
  IF m.thrown THEN m ELSE [SfdClose(m, s, f) EXCEPT ![s][f] = fd]

(* --------------------------- RedirectStdFD ---------------------------- *)

\* dup2(a, b): b refers to what a refers to and is not close-on-exec.
Dup2(m, a, b) ==
  IF a \notin Fds \/ m.tab[a] = None \/ a = b
    THEN m
    ELSE [m EXCEPT !.tab[b] = m.tab[a], !.cx = m.cx \ {b}]

\* RedirectIn without the release of a descriptor that is a slot number.
RedirectIn_NoRelease(m) ==
  IF Defined(m.loc, "in") THEN Dup2(m, m.loc.in, 0) ELSE m

RedirectIn(m) ==
  IF Defined(m.loc, "in")
    THEN LET m1 == Dup2(m, m.loc.in, 0)
         IN  IF m.loc.in <= 2 THEN SfdRelease(m1, "loc", "in") ELSE m1
    ELSE m

\* RedirectOut without the duplication of out onto slot 2.
RedirectOut_NoCombine(m) ==
  IF Defined(m.loc, "out")
    THEN LET m1 == Dup2(m, m.loc.out, 1)
         IN  IF m.loc.out <= 2 THEN SfdRelease(m1, "loc", "out") ELSE m1
    ELSE m

RedirectOut(m) ==
  IF Defined(m.loc, "out")
    THEN LET m1 == Dup2(m, m.loc.out, 1)
             m2 == IF ~Defined(m.loc, "err") /\ m.loc.combine_out_err
                     THEN Dup2(m1, m.loc.out, 2)
                     ELSE m1
         IN  IF m.loc.out <= 2 THEN SfdRelease(m2, "loc", "out") ELSE m2
    ELSE m

RedirectErr(m) ==
  IF Defined(m.loc, "err")
    THEN LET m1 == Dup2(m, m.loc.err, 2)
         IN  IF m.loc.err <= 2 THEN SfdRelease(m1, "loc", "err") ELSE m1
    ELSE m

\* RedirectStdFD::close on stream set s.
CloseAll(m, s) == SfdClose(SfdClose(SfdClose(m, s, "in"), s, "out"), s, "err")

\* RedirectStdFD::redirect on the stream set m.loc.
Redirect(m) == CloseAll(RedirectErr(RedirectOut(RedirectIn(m))), "loc")

(* ---------------------------- RedirectPipe ---------------------------- *)

\* What the operating system refuses during a construction: the n-th
\* pipe(2), the n-th fcntl(F_SETFD), the open of /dev/null, or nothing.
Faults ==
  {[op |-> "none", n |-> 0], [op |-> "open", n |-> 1]}
    \cup {[op |-> o, n |-> i] : o \in {"pipe", "cloexec"}, i \in 1..3}

\* MakePipe with a pipe(2) that hands out descriptors 3 and 4 every time.
MakePipe_SameTwo(m, p, fault) ==
  IF m.thrown THEN m
  ELSE [m EXCEPT !.tab = [m.tab EXCEPT ![3] = ReadEnd(p), ![4] = WriteEnd(p)],
                 !.fd0 = 3, !.fd1 = 4, !.npipe = @ + 1,
                 !.made = @ \cup {p}]

\* make_pipe(fd) for pipe p: fd[0] is the read end, fd[1] the write end.
MakePipe(m, p, fault) ==
  IF m.thrown THEN m
  ELSE IF (fault.op = "pipe" /\ fault.n = m.npipe + 1)
          \/ Cardinality(FreeFds(m.tab)) < 2
    THEN [m EXCEPT !.npipe = @ + 1, !.thrown = TRUE]
    ELSE LET r == LowestFree(m.tab)
             t1 == [m.tab EXCEPT ![r] = ReadEnd(p)]
             w == LowestFree(t1)
         IN  [m EXCEPT !.tab = [t1 EXCEPT ![w] = WriteEnd(p)],
                       !.fd0 = r, !.fd1 = w, !.npipe = @ + 1,
                       !.made = @ \cup {p}]

\* Cloexec returning fd without marking it.
Cloexec_NoMark(m, fd, fault) ==
  IF m.thrown THEN m
  ELSE IF fault.op = "cloexec" /\ fault.n = m.ncx + 1
    THEN [m EXCEPT !.ncx = @ + 1, !.thrown = TRUE]
    ELSE [m EXCEPT !.ncx = @ + 1]

\* cloexec(fd): marks fd close-on-exec, or throws.
Cloexec(m, fd, fault) ==
  IF m.thrown THEN m
  ELSE IF fault.op = "cloexec" /\ fault.n = m.ncx + 1
    THEN [m EXCEPT !.ncx = @ + 1, !.thrown = TRUE]
    ELSE [m EXCEPT !.ncx = @ + 1, !.cx = @ \cup {fd}]

\* remote.in.reset(::open("/dev/null", O_RDONLY, 0)), throwing when the
\* handle is then undefined.
OpenNull(m, fault) ==
  IF m.thrown THEN m
  ELSE IF fault.op = "open" \/ FreeFds(m.tab) = {}
    THEN [SfdReset(m, "rem", "in", UndefinedFd) EXCEPT !.thrown = TRUE]
    ELSE LET fd == LowestFree(m.tab)
         IN  SfdReset([m EXCEPT !.tab[fd] = Null], "rem", "in", fd)

CtorOut(m, fault) ==
  LET m1 == MakePipe(m, "out", fault)
      m2 == Cloexec(m1, m1.fd0, fault)
      m3 == SfdReset(m2, "loc", "out", m2.fd0)
  IN  SfdReset(m3, "rem", "out", m3.fd1)

CtorFlag(m, combine_out_err_arg) ==
  IF m.thrown THEN m
  ELSE [m EXCEPT !.loc.combine_out_err = combine_out_err_arg,
                 !.rem.combine_out_err = combine_out_err_arg]

\* CtorErr creating the error pipe whatever the flag.
CtorErr_Always(m, fault) ==
  IF m.thrown THEN m
  ELSE LET m1 == MakePipe(m, "err", fault)
           m2 == Cloexec(m1, m1.fd0, fault)
           m3 == SfdReset(m2, "loc", "err", m2.fd0)
       IN  SfdReset(m3, "rem", "err", m3.fd1)

CtorErr(m, fault) ==
  IF m.thrown \/ m.loc.combine_out_err THEN m
  ELSE LET m1 == MakePipe(m, "err", fault)
           m2 == Cloexec(m1, m1.fd0, fault)
           m3 == SfdReset(m2, "loc", "err", m2.fd0)
       IN  SfdReset(m3, "rem", "err", m3.fd1)

\* CtorIn creating the input pipe whatever enable_in.
CtorIn_Always(m, enable_in, fault) ==
  IF m.thrown THEN m
  ELSE LET m1 == MakePipe(m, "in", fault)
           m2 == Cloexec(m1, m1.fd1, fault)
           m3 == SfdReset(m2, "loc", "in", m2.fd1)
       IN  SfdReset(m3, "rem", "in", m3.fd0)

CtorIn(m, enable_in, fault) ==
  IF m.thrown THEN m
  ELSE IF enable_in
    THEN LET m1 == MakePipe(m, "in", fault)
             m2 == Cloexec(m1, m1.fd1, fault)
             m3 == SfdReset(m2, "loc", "in", m2.fd1)
         IN  SfdReset(m3, "rem", "in", m3.fd0)
    ELSE OpenNull(m, fault)

\* An unwinding that closes nothing (descriptors kept as plain integers).
CtorUnwind_Nothing(m) == m

\* A constructor that throws destroys its base RedirectStdFD: the handles
\* in, out and err of the object under construction close what they own.
CtorUnwind(m) == IF m.thrown THEN CloseAll(m, "loc") ELSE m

\* RedirectPipe::RedirectPipe(remote, combine_out_err_arg, enable_in).
Ctor(m, combine_out_err_arg, enable_in, fault) ==
  CtorUnwind(CtorIn(CtorErr(CtorFlag(CtorOut(m, fault), combine_out_err_arg),
                            fault),
                    enable_in, fault))

(* ------------------------------- state -------------------------------- *)

VARIABLES
  pc,      \* the parent: "new", "built", "failed", "empty", "run", "done",
           \* "run2", "done2", "gone"; or the name of a scenario of its own
  fdt,     \* the parent's descriptor table
  cloex,   \* the parent's descriptors marked close-on-exec
  loc,     \* the RedirectPipe object: handles in, out, err and the flag
  rem,     \* the remote stream set, as the parent holds it
  nclose,  \* per descriptor number, calls of close(2) by the parent
  args,    \* the constructor's arguments and the fault it met
  made,    \* the pipes the constructor created
  input,   \* inout.in
  res,     \* inout.out and inout.err as transact leaves them
  wr,      \* the SD_OUT driver send_in
  rd,      \* the SD_IN drivers recv_out and recv_err
  sent,    \* the bytes the writer has put into the stdin pipe, in order
  buf,     \* the bytes held by each pipe
  cpc,     \* the child: "none", "forked", "installed", "closed", "run", "exited"
  ckind,   \* the child's program: "echo" or "free"
  cfd,     \* the child's descriptor table
  hd0,     \* the stream set the child installs, as it was before install
  chd,     \* the stream set the child installs
  cclose,  \* per descriptor number, calls of close(2) by the child
  cbuf,    \* bytes the echoing child has read and not yet written
  clog,    \* every write of the child: <<slot, byte>>, in order
  res2,    \* inout.out and inout.err as a second transact leaves them
  hist,    \* of a lone handle: what it took, what it gave away, per descriptor
  ses      \* two RedirectPipe objects of one process, each with its remote

pvars == <<pc, fdt, cloex, loc, rem, nclose, args, made, input, res, wr, rd, sent>>
cvars == <<cpc, ckind, cfd, hd0, chd, cclose, cbuf, clog>>
xvars == <<res2, hist, ses>>
vars == <<pvars, buf, cvars, xvars>>

Min(a, b) == IF a <= b THEN a ELSE b

SeqsUpTo(n) == UNION {[1..i -> Byte] : i \in 0..n}

Take(s, n) == SubSeq(s, 1, Min(n, Len(s)))
Drop(s, n) == SubSeq(s, Min(n, Len(s)) + 1, Len(s))

StdTable == [fd \in Fds |-> IF fd <= 2 THEN File(fd) ELSE None]
NoArgs == [combine |-> FALSE, enable_in |-> FALSE, fault |-> [op |-> "none", n |-> 0]]
NoWriter == [st |-> "Undefined", fd |-> UndefinedFd, off |-> 0, ec |-> FALSE]
NoReader == [st |-> "Undefined", fd |-> UndefinedFd, data |-> <<>>]
NoResult == [out |-> <<>>, err |-> <<>>]
NoHist == [took |-> ZeroCount, gave |-> ZeroCount, ops |-> 0]
Sessions == {1, 2}
NoSession == [st |-> "new", loc |-> NoHandles, rem |-> NoHandles,
              drv |-> [in |-> UndefinedFd, out |-> UndefinedFd, err |-> UndefinedFd]]

(* ------------------------------- pipes -------------------------------- *)

\* Whether some descriptor of the parent or of the running child refers to d.
ChildLive == cpc \in {"forked", "run"}
\* Held counting the descriptors of the child only.
Held_ChildOnly(d) == ChildLive /\ \E fd \in Fds : cfd[fd] = d

Held(d) ==
  \/ \E fd \in Fds : fdt[fd] = d
  \/ ChildLive /\ \E fd \in Fds : cfd[fd] = d

HasReaders(p) == Held(ReadEnd(p))
HasWriters(p) == Held(WriteEnd(p))
Space(p) == PipeCap - Len(buf[p])

\* read(2) returns 0: nothing buffered and no write end left.
AtEof(p) == buf[p] = <<>> /\ ~HasWriters(p)

(* ------------------------- the parent's actions ----------------------- *)

\* RedirectPipe local(remote, combine_out_err_arg, enable_in), the operating
\* system refusing the call named by fault (a call the construction makes).
Construct(combine_out_err_arg, enable_in, fault) ==
  /\ pc = "new"
  /\ LET m == Ctor(Machine(fdt, cloex, NoHandles, rem, nclose),
                   combine_out_err_arg, enable_in, fault)
     IN  /\ m.thrown <=> fault.op # "none"
         /\ pc' = IF m.thrown THEN "failed" ELSE "built"
         /\ fdt' = m.tab
         /\ cloex' = m.cx
         /\ loc' = m.loc
         /\ rem' = m.rem
         /\ nclose' = m.ncl
         /\ made' = m.made
  /\ args' = [combine |-> combine_out_err_arg, enable_in |-> enable_in,
              fault |-> fault]
  /\ UNCHANGED <<input, res, wr, rd, sent, buf, cvars, xvars>>

\* exec: descriptors marked close-on-exec are closed, handles are gone.
Exec(m) ==
  [m EXCEPT !.tab = [fd \in Fds |-> IF fd \in m.cx THEN None ELSE m.tab[fd]],
            !.cx = {}]

\* The launcher: fork, then in the child remote.redirect() and exec.
Launch ==
  /\ pc = "built"
  /\ cpc = "none"
  /\ LET c == Exec(Redirect(Machine(fdt, cloex, rem, NoHandles, ZeroCount)))
     IN  /\ cfd' = c.tab
         /\ chd' = c.loc
         /\ cclose' = c.ncl
  /\ hd0' = rem
  /\ cpc' = "run"
  /\ UNCHANGED <<pvars, xvars, buf, ckind, cbuf, clog>>

\* remote.close() in the parent (also what destroying remote does).
RemoteClose ==
  /\ \/ pc = "built" /\ cpc # "none"
     \/ pc \in {"failed", "done"}
  /\ \E f \in Slots : Defined(rem, f)
  /\ LET m == CloseAll(Machine(fdt, cloex, loc, rem, nclose), "rem")
     IN  /\ fdt' = m.tab
         /\ cloex' = m.cx
         /\ rem' = m.rem
         /\ nclose' = m.ncl
  /\ UNCHANGED <<pc, loc, args, made, input, res, wr, rd, sent, buf, cvars, xvars>>

\* SdOut building an Active driver whatever the handle.
SdOut_AlwaysActive(h) == [st |-> "Active", fd |-> h.in, off |-> 0, ec |-> FALSE]

\* SD::SD: a driver takes the descriptor of a defined handle.
SdOut(h) ==
  IF Defined(h, "in")
    THEN [st |-> "Active", fd |-> h.in, off |-> 0, ec |-> FALSE]
  ELSE NoWriter
SdIn(h, f) ==
  IF Defined(h, f) THEN [st |-> "Active", fd |-> h[f], data |-> <<>>]
  ELSE NoReader

\* The handles left as they were although the drivers took the descriptors.
Released_StillOwned(h) == h

\* The handles of a stream set once the three SD constructors have run:
\* each defined handle has given its descriptor to a driver (fd.release()).
Released(h) ==
  [h EXCEPT !.in = UndefinedFd, !.out = UndefinedFd, !.err = UndefinedFd]

\* RedirectPipe(): an object whose handles are all undefined, no remote.
ConstructDefault ==
  /\ pc = "new"
  /\ pc' = "empty"
  /\ loc' = NoHandles
  /\ UNCHANGED <<fdt, cloex, rem, nclose, args, made, input, res, wr, rd, sent,
                 buf, cvars, xvars>>

\* transact, up to io_context.run(): the three drivers are built.  A call
\* on an object that has transacted before, or that was default-constructed,
\* is followed as a second call ("run2").
TransactStart ==
  /\ \/ pc = "built" /\ cpc # "none"
     \/ pc \in {"done", "empty"}
  /\ wr' = SdOut(loc)
  /\ rd' = [out |-> SdIn(loc, "out"), err |-> SdIn(loc, "err")]
  /\ loc' = Released(loc)
  /\ pc' = IF pc = "built" THEN "run" ELSE "run2"
  /\ UNCHANGED <<fdt, cloex, rem, nclose, args, made, input, res, sent, buf,
                 cvars, xvars>>

\* buf.size() of the writer: the bytes after its cursor.
Remaining(w) == Len(input) - w.off

\* WriteHandler without buf.advance: the cursor stays where it was.
WriteHandler_NoAdvance(w, ec, bytes_sent) ==
  IF ~ec /\ bytes_sent < Remaining(w)
    THEN w
    ELSE [w EXCEPT !.st = "Closed", !.ec = ec]

\* WriteHandler closing after its first completion, bytes left or not.
WriteHandler_CloseAtOnce(w, ec, bytes_sent) ==
  [w EXCEPT !.st = "Closed", !.ec = ec]

\* WriteHandler advancing the cursor one byte further than was sent.
WriteHandler_SkipsOne(w, ec, bytes_sent) ==
  IF ~ec /\ bytes_sent < Remaining(w)
    THEN [w EXCEPT !.off = @ + bytes_sent + 1]
    ELSE [w EXCEPT !.st = "Closed", !.ec = ec]

\* The completion handler of async_write_some: the next driver state
\* (off is the cursor buf.advance moves; ec records the error it was given).
WriteHandler(w, ec, bytes_sent) ==
  IF ~ec /\ bytes_sent < Remaining(w)
    THEN [w EXCEPT !.off = @ + bytes_sent]
    ELSE [w EXCEPT !.st = "Closed", !.ec = ec]

\* One async_write_some completes: k bytes went into the stdin pipe, or
\* none because nothing was offered, or none because of EPIPE.
WriteSome(k) ==
  /\ pc \in {"run", "run2"}
  /\ wr.st = "Active"
  /\ LET offered == Min(WriteChunk, Remaining(wr))
         ec == offered > 0 /\ ~HasReaders("in")
         w == WriteHandler(wr, ec, k)
     IN  /\ k <= offered
         /\ k = 0 => (offered = 0 \/ ec)
         /\ k > 0 => (~ec /\ k <= Space("in"))
         /\ buf' = [buf EXCEPT !["in"] = @ \o SubSeq(input, wr.off + 1, wr.off + k)]
         /\ sent' = sent \o SubSeq(input, wr.off + 1, wr.off + k)
         /\ wr' = w
         /\ IF w.st = "Closed"
              THEN /\ fdt' = OsClose(fdt, wr.fd)
                   /\ cloex' = cloex \ {wr.fd}
                   /\ nclose' = [nclose EXCEPT ![wr.fd] = @ + 1]
              ELSE UNCHANGED <<fdt, cloex, nclose>>
  /\ UNCHANGED <<pc, loc, rem, args, made, input, res, rd, cvars, xvars>>

\* ReadHandler keeping only the chunk it has just received.
ReadHandler_KeepsLast(r, ec, chunk) ==
  IF ~ec
    THEN [r EXCEPT !.data = chunk]
    ELSE [r EXCEPT !.st = "Closed"]

\* The completion handler of async_read_some: the next driver state.
ReadHandler(r, ec, chunk) ==
  IF ~ec
    THEN [r EXCEPT !.data = @ \o chunk]
    ELSE [r EXCEPT !.st = "Closed"]

\* ReadReady of a transact that reads only once the writer is done.
ReadReady_AfterWriter(p) ==
  /\ wr.st # "Active"
  /\ rd[p].st = "Active"
  /\ buf[p] # <<>> \/ AtEof(p)

\* A reader's pending async_read_some can complete: the loop runs it as
\* soon as its pipe holds bytes or is at end-of-file, whatever the other
\* drivers wait for.
ReadReady(p) ==
  /\ rd[p].st = "Active"
  /\ buf[p] # <<>> \/ AtEof(p)

\* One async_read_some of reader p completes: bytes from its pipe, or EOF.
ReadSome(p) ==
  /\ pc \in {"run", "run2"}
  /\ ReadReady(p)
  /\ LET ec == buf[p] = <<>>
         chunk == Take(buf[p], ReadChunk)
         r == ReadHandler(rd[p], ec, chunk)
     IN  /\ rd' = [rd EXCEPT ![p] = r]
         /\ buf' = [buf EXCEPT ![p] = Drop(@, ReadChunk)]
         /\ IF r.st = "Closed"
              THEN /\ fdt' = OsClose(fdt, rd[p].fd)
                   /\ cloex' = cloex \ {rd[p].fd}
                   /\ nclose' = [nclose EXCEPT ![rd[p].fd] = @ + 1]
              ELSE UNCHANGED <<fdt, cloex, nclose>>
  /\ UNCHANGED <<pc, loc, rem, args, made, input, res, wr, sent, cvars, xvars>>

\* RunFinished of a loop that a writer's I/O error stops.
RunFinished_OrWriterError ==
  \/ wr.st = "Closed" /\ wr.ec
  \/ /\ wr.st # "Active"
     /\ \A p \in {"out", "err"} : rd[p].st # "Active"

\* RunFinished of a loop that waits for the writer only.
RunFinished_WriterOnly == wr.st # "Active"

\* io_context.run() returns once no driver has an operation pending.
RunFinished ==
  /\ wr.st # "Active"
  /\ \A p \in {"out", "err"} : rd[p].st # "Active"

\* transact, from the return of io_context.run(): it copies the readers'
\* content and returns.
TransactReturn ==
  /\ pc \in {"run", "run2"}
  /\ RunFinished
  /\ IF pc = "run"
       THEN /\ res' = [out |-> rd.out.data, err |-> rd.err.data]
            /\ UNCHANGED res2
       ELSE /\ res2' = [out |-> rd.out.data, err |-> rd.err.data]
            /\ UNCHANGED res
  /\ pc' = IF pc = "run" THEN "done" ELSE "done2"
  /\ UNCHANGED <<fdt, cloex, loc, rem, nclose, args, made, input, wr, rd, sent,
                 buf, cvars, hist, ses>>

\* The RedirectPipe object is destroyed after its transact: its handles
\* in, out and err close what they own.
Destroy ==
  /\ pc \in {"done", "done2"}
  /\ LET m == CloseAll(Machine(fdt, cloex, loc, rem, nclose), "loc")
     IN  /\ fdt' = m.tab
         /\ cloex' = m.cx
         /\ loc' = m.loc
         /\ nclose' = m.ncl
  /\ pc' = "gone"
  /\ UNCHANGED <<rem, args, made, input, res, wr, rd, sent, buf, cvars, xvars>>

(* -------------------------- the child's actions ----------------------- *)

NoTable == [fd \in Fds |-> None]

\* The child writes byte b to its slot s.
ChildPut(s, bs) ==
  /\ clog' = clog \o [i \in 1..Len(bs) |-> <<s, bs[i]>>]
  /\ IF cfd[s].k = "W"
       THEN buf' = [buf EXCEPT ![cfd[s].p] = @ \o bs]
       ELSE UNCHANGED buf

\* Whether a write of n bytes to slot s can proceed now.
CanPut(s, n) ==
  /\ cfd[s] # None
  /\ cfd[s].k # "R"
  /\ cfd[s].k = "W" => (HasReaders(cfd[s].p) /\ n <= Space(cfd[s].p))

\* The echoing child reads what its stdin holds.
EchoRead ==
  /\ cpc = "run" /\ ckind = "echo"
  /\ cbuf = <<>>
  /\ cfd[0].k = "R"
  /\ buf[cfd[0].p] # <<>>
  /\ cbuf' = buf[cfd[0].p]
  /\ buf' = [buf EXCEPT ![cfd[0].p] = <<>>]
  /\ UNCHANGED <<pvars, xvars, cpc, ckind, cfd, hd0, chd, cclose, clog>>

\* The echoing child writes what it read to its stdout, as far as it fits.
EchoWrite(n) ==
  /\ cpc = "run" /\ ckind = "echo"
  /\ cbuf # <<>>
  /\ n = IF cfd[1].k = "W" THEN Min(Len(cbuf), Space(cfd[1].p)) ELSE Len(cbuf)
  /\ n > 0
  /\ CanPut(1, n)
  /\ ChildPut(1, Take(cbuf, n))
  /\ cbuf' = Drop(cbuf, n)
  /\ UNCHANGED <<pvars, xvars, cpc, ckind, cfd, hd0, chd, cclose>>

\* The echoing child sees end-of-file on its stdin and exits.
EchoExit ==
  /\ cpc = "run" /\ ckind = "echo"
  /\ cbuf = <<>>
  /\ \/ cfd[0].k \in {"null", "none", "W"}
     \/ cfd[0].k = "R" /\ AtEof(cfd[0].p)
  /\ cpc' = "exited"
  /\ cfd' = NoTable
  /\ UNCHANGED <<pvars, xvars, buf, ckind, hd0, chd, cclose, cbuf, clog>>

\* An arbitrary child reads (and drops) what its stdin holds.
FreeRead ==
  /\ cpc = "run" /\ ckind = "free"
  /\ cfd[0].k = "R"
  /\ buf[cfd[0].p] # <<>>
  /\ buf' = [buf EXCEPT ![cfd[0].p] = <<>>]
  /\ UNCHANGED <<pvars, xvars, cvars>>

\* An arbitrary child writes one byte to its stdout or stderr.  No code
\* here looks at a byte's value, so the child's i-th byte is i modulo 2.
FreeWrite(s) ==
  /\ cpc = "run" /\ ckind = "free"
  /\ Len(clog) < MaxChildOut
  /\ CanPut(s, 1)
  /\ ChildPut(s, <<Len(clog) % 2>>)
  /\ UNCHANGED <<pvars, xvars, cpc, ckind, cfd, hd0, chd, cclose, cbuf>>

\* An arbitrary child closes one of its slots.
FreeClose(s) ==
  /\ cpc = "run" /\ ckind = "free"
  /\ cfd[s] # None
  /\ cfd' = [cfd EXCEPT ![s] = None]
  /\ UNCHANGED <<pvars, xvars, buf, cpc, ckind, hd0, chd, cclose, cbuf, clog>>

\* An arbitrary child exits.
FreeExit ==
  /\ cpc = "run" /\ ckind = "free"
  /\ cpc' = "exited"
  /\ cfd' = NoTable
  /\ UNCHANGED <<pvars, xvars, buf, ckind, hd0, chd, cclose, cbuf, clog>>

(* --------------------------- specifications --------------------------- *)

Init ==
  /\ pc = "new"
  /\ fdt = StdTable
  /\ cloex = {}
  /\ loc = NoHandles
  /\ rem = NoHandles
  /\ nclose = ZeroCount
  /\ args = NoArgs
  /\ made = {}
  /\ ckind \in {"echo", "free"}
  /\ input \in SeqsUpTo(IF ckind = "echo" THEN MaxLen ELSE MaxFreeLen)
  /\ res = NoResult
  /\ wr = NoWriter
  /\ rd = [out |-> NoReader, err |-> NoReader]
  /\ sent = <<>>
  /\ buf = [p \in Pipes |-> <<>>]
  /\ cpc = "none"
  /\ cfd = NoTable
  /\ hd0 = NoHandles
  /\ chd = NoHandles
  /\ cclose = ZeroCount
  /\ cbuf = <<>>
  /\ clog = <<>>
  /\ res2 = NoResult
  /\ hist = NoHist
  /\ ses = [i \in Sessions |-> NoSession]

Next ==
  \/ \E c \in BOOLEAN, e \in BOOLEAN, f \in Faults : Construct(c, e, f)
  \/ ConstructDefault
  \/ Destroy
  \/ Launch
  \/ RemoteClose
  \/ TransactStart
  \/ \E k \in 0..WriteChunk : WriteSome(k)
  \/ \E p \in {"out", "err"} : ReadSome(p)
  \/ TransactReturn
  \/ EchoRead
  \/ \E n \in 1..PipeCap : EchoWrite(n)
  \/ EchoExit
  \/ FreeRead
  \/ \E s \in {1, 2} : FreeWrite(s)
  \/ \E s \in 0..2 : FreeClose(s)
  \/ FreeExit

Spec == Init /\ [][Next]_vars

(* ------------------------ the echoing child alone --------------------- *)

InitEcho == Init /\ ckind = "echo"

NextEcho ==
  \/ \E c \in BOOLEAN, e \in BOOLEAN, f \in Faults : Construct(c, e, f)
  \/ ConstructDefault
  \/ Destroy
  \/ Launch
  \/ RemoteClose
  \/ TransactStart
  \/ \E k \in 0..WriteChunk : WriteSome(k)
  \/ \E p \in {"out", "err"} : ReadSome(p)
  \/ TransactReturn
  \/ EchoRead
  \/ \E n \in 1..PipeCap : EchoWrite(n)
  \/ EchoExit

\* What the event loop and the operating system keep doing: the loop runs
\* a completion handler that is ready, a child that can run does run.
Progress ==
  \/ \E k \in 0..WriteChunk : WriteSome(k)
  \/ \E p \in {"out", "err"} : ReadSome(p)
  \/ TransactReturn
  \/ EchoRead
  \/ \E n \in 1..PipeCap : EchoWrite(n)
  \/ EchoExit

SpecEcho == InitEcho /\ [][NextEcho]_vars /\ WF_vars(Progress)

(* ------------------------- install on its own ------------------------- *)

\* The stream sets a process may hold: each defined handle owns a
\* descriptor of its own.
StreamSets ==
  {[in |-> i, out |-> o, err |-> e, combine_out_err |-> c] :
     i \in {UndefinedFd} \cup Fds, o \in {UndefinedFd} \cup Fds,
     e \in {UndefinedFd} \cup Fds, c \in BOOLEAN}

OwnsDistinct(h) ==
  \A f \in Slots, g \in Slots :
    (f # g /\ Defined(h, f) /\ Defined(h, g)) => h[f] # h[g]

\* The descriptors a stream set owns.
Owned(h) == {h[f] : f \in {g \in Slots : Defined(h, g)}}

\* A process about to install a stream set of its own: descriptors 0, 1, 2
\* and those the stream set owns are open, each on a file of its own.
InitInstall ==
  /\ pc = "install"
  /\ fdt = StdTable
  /\ cloex = {}
  /\ loc = NoHandles
  /\ rem = NoHandles
  /\ nclose = ZeroCount
  /\ args = NoArgs
  /\ made = {}
  /\ ckind = "free"
  /\ input = <<>>
  /\ res = NoResult
  /\ wr = NoWriter
  /\ rd = [out |-> NoReader, err |-> NoReader]
  /\ sent = <<>>
  /\ buf = [p \in Pipes |-> <<>>]
  /\ cpc = "forked"
  /\ chd \in {h \in StreamSets : OwnsDistinct(h)}
  /\ hd0 = chd
  /\ cfd = [fd \in Fds |-> IF fd <= 2 \/ fd \in Owned(chd) THEN File(fd) ELSE None]
  /\ cclose = ZeroCount
  /\ cbuf = <<>>
  /\ clog = <<>>
  /\ res2 = NoResult
  /\ hist = NoHist
  /\ ses = [i \in Sessions |-> NoSession]

\* The process calls redirect() on its stream set.
Install ==
  /\ pc = "install"
  /\ cpc = "forked"
  /\ LET c == Redirect(Machine(cfd, {}, chd, NoHandles, cclose))
     IN  /\ cfd' = c.tab
         /\ chd' = c.loc
         /\ cclose' = c.ncl
  /\ cpc' = "installed"
  /\ UNCHANGED <<pvars, xvars, buf, ckind, hd0, cbuf, clog>>

\* The process calls close() on its stream set instead.
InstallClose ==
  /\ pc = "install"
  /\ cpc = "forked"
  /\ LET c == CloseAll(Machine(cfd, {}, chd, NoHandles, cclose), "loc")
     IN  /\ cfd' = c.tab
         /\ chd' = c.loc
         /\ cclose' = c.ncl
  /\ cpc' = "closed"
  /\ UNCHANGED <<pvars, xvars, buf, ckind, hd0, cbuf, clog>>

NextInstall == Install \/ InstallClose

SpecInstall == InitInstall /\ [][NextInstall]_vars

(* -------------------------- a handle on its own ----------------------- *)

\* A process holding one descriptor handle (kept in loc.in) and applying
\* reset, release and close to it in any order, then destroying it.
InitHandle ==
  /\ pc = "handle"
  /\ fdt = StdTable
  /\ cloex = {}
  /\ loc = NoHandles
  /\ rem = NoHandles
  /\ nclose = ZeroCount
  /\ args = NoArgs
  /\ made = {}
  /\ ckind = "free"
  /\ input = <<>>
  /\ res = NoResult
  /\ wr = NoWriter
  /\ rd = [out |-> NoReader, err |-> NoReader]
  /\ sent = <<>>
  /\ buf = [p \in Pipes |-> <<>>]
  /\ cpc = "none"
  /\ cfd = NoTable
  /\ hd0 = NoHandles
  /\ chd = NoHandles
  /\ cclose = ZeroCount
  /\ cbuf = <<>>
  /\ clog = <<>>
  /\ res2 = NoResult
  /\ hist = NoHist
  /\ ses = [i \in Sessions |-> NoSession]

\* A descriptor above 2 that is open and that the handle does not own: the
\* caller is responsible for it.
Raw(fd) == fd > 2 /\ fdt[fd] # None /\ loc.in # fd

\* reset(fd), fd being a descriptor the caller has just opened or one it
\* is responsible for.
HandleReset(fd) ==
  /\ pc = "handle" /\ hist.ops < MaxOps
  /\ \/ FreeFds(fdt) # {} /\ fd = LowestFree(fdt)
     \/ Raw(fd)
  /\ LET t1 == [fdt EXCEPT ![fd] = File(fd)]
         m == SfdReset(Machine(t1, cloex, loc, rem, nclose), "loc", "in", fd)
     IN  /\ fdt' = m.tab
         /\ loc' = m.loc
         /\ nclose' = m.ncl
  /\ hist' = [hist EXCEPT !.took[fd] = @ + 1, !.ops = @ + 1]
  /\ UNCHANGED <<pc, cloex, rem, args, made, input, res, wr, rd, sent, buf,
                 cvars, res2, ses>>

\* release(): the caller becomes responsible for the descriptor.
HandleRelease ==
  /\ pc = "handle" /\ hist.ops < MaxOps
  /\ LET m == SfdRelease(Machine(fdt, cloex, loc, rem, nclose), "loc", "in")
     IN  /\ fdt' = m.tab
         /\ loc' = m.loc
         /\ nclose' = m.ncl
  /\ hist' = IF Defined(loc, "in")
               THEN [hist EXCEPT !.gave[loc.in] = @ + 1, !.ops = @ + 1]
               ELSE [hist EXCEPT !.ops = @ + 1]
  /\ UNCHANGED <<pc, cloex, rem, args, made, input, res, wr, rd, sent, buf,
                 cvars, res2, ses>>

\* close().
HandleClose ==
  /\ pc = "handle" /\ hist.ops < MaxOps
  /\ LET m == SfdClose(Machine(fdt, cloex, loc, rem, nclose), "loc", "in")
     IN  /\ fdt' = m.tab
         /\ loc' = m.loc
         /\ nclose' = m.ncl
  /\ hist' = [hist EXCEPT !.ops = @ + 1]
  /\ UNCHANGED <<pc, cloex, rem, args, made, input, res, wr, rd, sent, buf,
                 cvars, res2, ses>>

\* The handle is destroyed.
HandleDestroy ==
  /\ pc = "handle"
  /\ LET m == SfdClose(Machine(fdt, cloex, loc, rem, nclose), "loc", "in")
     IN  /\ fdt' = m.tab
         /\ loc' = m.loc
         /\ nclose' = m.ncl
  /\ pc' = "dropped"
  /\ UNCHANGED <<cloex, rem, args, made, input, res, wr, rd, sent, buf,
                 cvars, xvars>>

\* The caller closes a descriptor it is responsible for.
CallerClose(fd) ==
  /\ pc = "handle" /\ hist.ops < MaxOps
  /\ Raw(fd)
  /\ fdt' = OsClose(fdt, fd)
  /\ hist' = [hist EXCEPT !.ops = @ + 1]
  /\ UNCHANGED <<pc, cloex, loc, rem, nclose, args, made, input, res, wr, rd,
                 sent, buf, cvars, res2, ses>>

NextHandle ==
  \/ \E fd \in Fds : HandleReset(fd)
  \/ HandleRelease
  \/ HandleClose
  \/ HandleDestroy
  \/ \E fd \in Fds : CallerClose(fd)

SpecHandle == InitHandle /\ [][NextHandle]_vars

(* ---------------------- two redirectors, one process ------------------ *)

InitTwo ==
  /\ pc = "two"
  /\ fdt = StdTable
  /\ cloex = {}
  /\ loc = NoHandles
  /\ rem = NoHandles
  /\ nclose = ZeroCount
  /\ args = NoArgs
  /\ made = {}
  /\ ckind = "free"
  /\ input = <<>>
  /\ res = NoResult
  /\ wr = NoWriter
  /\ rd = [out |-> NoReader, err |-> NoReader]
  /\ sent = <<>>
  /\ buf = [p \in Pipes |-> <<>>]
  /\ cpc = "none"
  /\ cfd = NoTable
  /\ hd0 = NoHandles
  /\ chd = NoHandles
  /\ cclose = ZeroCount
  /\ cbuf = <<>>
  /\ clog = <<>>
  /\ res2 = NoResult
  /\ hist = NoHist
  /\ ses = [i \in Sessions |-> NoSession]

TwoUnchanged ==
  UNCHANGED <<pc, loc, rem, args, made, input, res, wr, rd, sent, buf, cvars,
              res2, hist>>

\* Session i is constructed with a remote stream set of its own; the
\* second one only once the first one has been.
TwoConstruct(i, combine_out_err_arg, enable_in) ==
  /\ pc = "two"
  /\ ses[i].st = "new"
  /\ i = 2 => ses[1].st # "new"
  /\ LET m == Ctor(Machine(fdt, cloex, NoHandles, ses[i].rem, nclose),
                   combine_out_err_arg, enable_in, NoArgs.fault)
     IN  /\ fdt' = m.tab
         /\ cloex' = m.cx
         /\ nclose' = m.ncl
         /\ ses' = [ses EXCEPT ![i].st = IF m.thrown THEN "failed" ELSE "built",
                               ![i].loc = m.loc,
                               ![i].rem = m.rem]
  /\ TwoUnchanged

\* remote.close() on the remote stream set of session i.
TwoRemoteClose(i) ==
  /\ pc = "two"
  /\ ses[i].st # "new"
  /\ \E f \in Slots : Defined(ses[i].rem, f)
  /\ LET m == CloseAll(Machine(fdt, cloex, ses[i].loc, ses[i].rem, nclose), "rem")
     IN  /\ fdt' = m.tab
         /\ cloex' = m.cx
         /\ nclose' = m.ncl
         /\ ses' = [ses EXCEPT ![i].rem = m.rem]
  /\ TwoUnchanged

\* transact on session i, up to io_context.run(): its drivers take the
\* descriptors of its defined handles.
TwoTransactStart(i) ==
  /\ pc = "two"
  /\ ses[i].st = "built"
  /\ ses' = [ses EXCEPT ![i].st = "run",
                        ![i].drv = [in |-> SdOut(ses[i].loc).fd,
                                    out |-> SdIn(ses[i].loc, "out").fd,
                                    err |-> SdIn(ses[i].loc, "err").fd],
                        ![i].loc = Released(@)]
  /\ UNCHANGED <<fdt, cloex, nclose>>
  /\ TwoUnchanged

\* A driver of session i closes its descriptor (sd->close()).
TwoDriverClose(i, f) ==
  /\ pc = "two"
  /\ ses[i].st = "run"
  /\ ses[i].drv[f] # UndefinedFd
  /\ fdt' = OsClose(fdt, ses[i].drv[f])
  /\ cloex' = cloex \ {ses[i].drv[f]}
  /\ nclose' = [nclose EXCEPT ![ses[i].drv[f]] = @ + 1]
  /\ ses' = [ses EXCEPT ![i].drv[f] = UndefinedFd]
  /\ TwoUnchanged

\* transact on session i returns: no driver has an operation pending.
TwoTransactReturn(i) ==
  /\ pc = "two"
  /\ ses[i].st = "run"
  /\ \A f \in Slots : ses[i].drv[f] = UndefinedFd
  /\ ses' = [ses EXCEPT ![i].st = "done"]
  /\ UNCHANGED <<fdt, cloex, nclose>>
  /\ TwoUnchanged

\* The RedirectPipe object of session i is closed or destroyed.
TwoClose(i) ==
  /\ pc = "two"
  /\ ses[i].st \in {"built", "done"}
  /\ LET m == CloseAll(Machine(fdt, cloex, ses[i].loc, ses[i].rem, nclose), "loc")
     IN  /\ fdt' = m.tab
         /\ cloex' = m.cx
         /\ nclose' = m.ncl
         /\ ses' = [ses EXCEPT ![i].st = "closed", ![i].loc = m.loc]
  /\ TwoUnchanged

NextTwo ==
  \/ \E i \in Sessions, c \in BOOLEAN, e \in BOOLEAN : TwoConstruct(i, c, e)
  \/ \E i \in Sessions : TwoRemoteClose(i)
  \/ \E i \in Sessions : TwoTransactStart(i)
  \/ \E i \in Sessions, f \in Slots : TwoDriverClose(i, f)
  \/ \E i \in Sessions : TwoTransactReturn(i)
  \/ \E i \in Sessions : TwoClose(i)

SpecTwo == InitTwo /\ [][NextTwo]_vars

(* ------------------------------- claims ------------------------------- *)

Bytes(log) == [i \in 1..Len(log) |-> log[i][2]]
IsSlot1(e) == e[1] = 1
IsSlot2(e) == e[1] = 2

\* What the child wrote to its slot 1, to its slot 2, and to both, in order.
ChildOut == Bytes(SelectSeq(clog, IsSlot1))
ChildErr == Bytes(SelectSeq(clog, IsSlot2))
ChildAll == Bytes(clog)

\* What transact must return for what the child wrote.
Captured ==
  IF args.combine
    THEN res.out = ChildAll /\ res.err = <<>>
    ELSE res.out = ChildOut /\ res.err = ChildErr

RemoteClosed == \A f \in Slots : ~Defined(rem, f)
Constructed == pc \in {"built", "run", "done"}

\* C1, as stated: with an echoing child, whenever transact has returned its
\* output is the input and its error is empty, for every input.
C1_EchoOutputIsInput ==
  (ckind = "echo" /\ pc = "done") => (res.out = input /\ res.err = <<>>)

\* C1, amended: with an echoing child and a redirector constructed with
\* enable_in true, whenever transact has returned its output is the input,
\* byte for byte and in order, and its error is empty.
C1_EchoOutputIsInputWhenEnabled ==
  (ckind = "echo" /\ pc = "done" /\ args.enable_in)
    => (res.out = input /\ res.err = <<>>)

\* C1 witness: transact returned an input of several chunks, echoed.
C1_Witness ==
  /\ ckind = "echo" /\ pc = "done" /\ args.enable_in
  /\ Len(input) > 2 * WriteChunk
  /\ res.out = input

\* The writer waits for room in a full stdin pipe.
WriterBlocked ==
  /\ pc = "run" /\ wr.st = "Active"
  /\ Remaining(wr) > 0
  /\ HasReaders("in") /\ Space("in") = 0

\* The echoing child waits for room in a full stdout pipe.
ChildBlockedOnStdout ==
  /\ cpc = "run" /\ ckind = "echo"
  /\ cbuf # <<>>
  /\ cfd[1] = WriteEnd("out") /\ Space("out") = 0

\* No state has the writer blocked on a full stdin pipe and the child
\* blocked on a full stdout pipe while the output reader cannot run.
NoCircularWait == ~(WriterBlocked /\ ChildBlockedOnStdout /\ ~ReadReady("out"))

\* C2, as stated: against an echoing child there is no circular wait, and
\* a transact that has started on an input larger than both pipes together
\* returns, the loop and the child being scheduled fairly.
C2_NoDeadlockAlwaysReturns ==
  /\ []NoCircularWait
  /\ ((pc = "run" /\ Len(input) > 2 * PipeCap) ~> (pc = "done"))

\* C2, amended: against an echoing child there is no circular wait, and a
\* transact that has started returns, the loop and the child being
\* scheduled fairly, provided the parent has closed its own copies of the
\* remote stream set's handles.
C2_NoDeadlockReturnsOnceRemoteClosed ==
  /\ []NoCircularWait
  /\ ((pc = "run" /\ RemoteClosed) ~> (pc = "done"))

\* C2 witness: the writer is blocked on a full stdin pipe and the child on a
\* full stdout pipe, the input being larger than both pipes together.
C2_Witness ==
  /\ WriterBlocked /\ ChildBlockedOnStdout
  /\ Len(input) > 2 * PipeCap
  /\ RemoteClosed

\* C3, as stated: once the writer has closed its handle, it has closed it
\* exactly once and every byte of the input has been sent.
C3_ClosedOnlyAfterAllSent ==
  wr.st = "Closed" => (nclose[wr.fd] = 1 /\ sent = input)

\* C3, amended: the writer closes its handle exactly once, only after every
\* byte of the input has been sent or after a write failed with an I/O
\* error, and writes nothing after the close: a Closed writer stays as it
\* is until a later transact builds its own drivers, and nothing more is
\* sent.
C3_ClosedOnceAfterSentOrError ==
  /\ [](wr.st = "Active" => nclose[wr.fd] = 0)
  /\ [](wr.st = "Closed" => (nclose[wr.fd] = 1 /\ (sent = input \/ wr.ec)))
  /\ [][wr.st = "Closed" =>
          /\ sent' = sent
          /\ nclose'[wr.fd] = nclose[wr.fd]
          /\ wr' = wr \/ (pc = "done" /\ pc' = "run2")]_vars

\* C3 witness: the writer has closed its handle after sending an input of
\* more than one chunk.
C3_Witness ==
  /\ wr.st = "Closed" /\ ~wr.ec
  /\ Len(input) > WriteChunk /\ sent = input
  /\ nclose[wr.fd] = 1

OpenFds == {fd \in Fds : fdt[fd] # None}
PipeFailedLate ==
  pc = "failed" /\ args.fault.op = "pipe" /\ args.fault.n >= 2

C5_ErrorsEndOneDriver ==
  /\ [][(wr.st = "Active" /\ wr'.st = "Closed") => rd' = rd]_vars
  /\ [][\A p \in {"out", "err"} :
          (rd[p].st = "Active" /\ rd'[p].st = "Closed")
            => (wr' = wr /\ \A q \in {"out", "err"} \ {p} : rd'[q] = rd[q])]_vars
  /\ [](pc = "done" => Captured)

\* C5 witness: transact returned the child's output although the writer
\* met a broken pipe before it had sent the whole input.
C5_Witness ==
  /\ pc = "done" /\ wr.ec
  /\ Len(sent) < Len(input)
  /\ res.out # <<>> /\ res.err # <<>>

\* C6: transact has returned only if no driver is Active, and a reader is
\* Closed only if its pipe is at end-of-file: every holder of the write end,
\* the child among them, has closed it.
C6_ReturnsOnlyWhenAllClosed ==
  /\ pc = "done" => (wr.st # "Active" /\ \A p \in {"out", "err"} : rd[p].st # "Active")
  /\ \A p \in {"out", "err"} : rd[p].st = "Closed" => AtEof(p)

\* C6 witness: transact is stalled: the writer and the error reader are
\* Closed and the child keeps its stdout open without writing.
C6_Witness ==
  /\ pc = "run" /\ ckind = "free" /\ cpc = "run"
  /\ RemoteClosed
  /\ wr.st = "Closed" /\ rd.err.st = "Closed" /\ rd.out.st = "Active"
  /\ cfd[1] = WriteEnd("out") /\ buf.out = <<>>
  /\ ~ENABLED TransactReturn

\* C7: constructed with combine_out_err true, the redirector creates no
\* error pipe, its err handle stays undefined, transact registers no error
\* reader and returns an empty error, and what the child writes to its
\* slot 2 arrives in the output.
C7_CombinedHasNoErrorStream ==
  (args.combine /\ Constructed) =>
    /\ "err" \notin made /\ Cardinality(made) <= 2
    /\ ~Defined(loc, "err")
    /\ rd.err.st = "Undefined"
    /\ res.err = <<>>
    /\ pc = "done" => res.out = ChildAll

\* C7 witness: transact returned, in its output, a byte the child wrote to
\* its slot 2.
C7_Witness ==
  /\ args.combine /\ pc = "done"
  /\ ChildErr # <<>> /\ ChildOut # <<>>
  /\ res.out = ChildAll

\* C8: constructed with enable_in false, the redirector creates no input
\* pipe, the remote's input handle is the null device, whose reads are at
\* end-of-file, the parent's in handle is undefined, and transact sends no
\* byte of the input while returning what the child wrote.
C8_DisabledInputSendsNothing ==
  (~args.enable_in /\ Constructed) =>
    /\ "in" \notin made
    /\ ~Defined(loc, "in")
    /\ cpc = "none" => Defined(rem, "in")
    /\ Defined(rem, "in") => fdt[rem.in] = Null
    /\ cpc = "run" => cfd[0] \in {Null, None}
    /\ wr.st = "Undefined" /\ sent = <<>> /\ buf["in"] = <<>>
    /\ ckind = "echo" => clog = <<>>
    /\ pc = "done" => Captured

\* C8 witness: transact was given a non-empty input, sent none of it and
\* returned what the child wrote to its stdout.
C8_Witness ==
  /\ ~args.enable_in /\ pc = "done"
  /\ input # <<>> /\ sent = <<>>
  /\ res.out # <<>> /\ res.out = ChildOut

\* C9, as stated: after install, slot 0 refers to what in referred to
\* before the call, slot 1 to what out referred to, and slot 2 to what err
\* referred to, or to what out referred to when combine_out_err is true
\* and err is undefined.
C9_InstallMapsEachHandle ==
  cpc = "installed" =>
    /\ Defined(hd0, "in") => cfd[0] = File(hd0.in)
    /\ Defined(hd0, "out") => cfd[1] = File(hd0.out)
    /\ Defined(hd0, "err") => cfd[2] = File(hd0.err)
    /\ (hd0.combine_out_err /\ ~Defined(hd0, "err") /\ Defined(hd0, "out"))
         => cfd[2] = File(hd0.out)

\* C10, as stated: with combine_out_err true, after install slots 1 and 2
\* refer to the same destination, whatever the err handle was.
C10_CombinedSlotsAgree ==
  (cpc = "installed" /\ hd0.combine_out_err) => cfd[1] = cfd[2]

\* C10, amended: with combine_out_err true, out defined and err undefined,
\* after install slots 1 and 2 refer to the same destination.
C10_CombinedSlotsAgreeWithoutErr ==
  (cpc = "installed" /\ hd0.combine_out_err
     /\ Defined(hd0, "out") /\ ~Defined(hd0, "err"))
    => cfd[1] = cfd[2]

\* C10 witness: out, a descriptor above 2, was installed on slots 1 and 2.
C10_Witness ==
  /\ cpc = "installed" /\ hd0.combine_out_err
  /\ Defined(hd0, "out") /\ ~Defined(hd0, "err") /\ hd0.out > 2
  /\ cfd[1] = File(hd0.out) /\ cfd[2] = File(hd0.out)

\* The ends of the pipes that the parent side keeps.
ParentEnds == {ReadEnd("out"), ReadEnd("err"), WriteEnd("in")}

\* C11: after a successful construction, for each of the four combinations
\* of the flags, the parent holds the read end of the output pipe, the read
\* end of the error pipe unless combined and the write end of the input
\* pipe if enabled, each marked close-on-exec; no descriptor of the remote
\* stream set is marked; and the launched child holds no end the parent kept.
C11_ParentEndsAreCloexec ==
  /\ pc = "built" =>
       /\ Defined(loc, "out") /\ fdt[loc.out] = ReadEnd("out")
       /\ Defined(loc, "err") <=> ~args.combine
       /\ Defined(loc, "err") => fdt[loc.err] = ReadEnd("err")
       /\ Defined(loc, "in") <=> args.enable_in
       /\ Defined(loc, "in") => fdt[loc.in] = WriteEnd("in")
       /\ \A fd \in Fds : fdt[fd] \in ParentEnds => fd \in cloex
       /\ \A fd \in Owned(rem) : fd \notin cloex
       /\ cpc = "none" => Cardinality(Owned(rem)) = Cardinality(made) + (IF args.enable_in THEN 0 ELSE 1)
  /\ cpc = "run" => \A fd \in Fds : cfd[fd] \notin ParentEnds

\* C11 witness: three pipes were made, the parent's three ends are marked
\* and the child was launched with the remote's three.
C11_Witness ==
  /\ pc = "built" /\ cpc = "run"
  /\ ~args.combine /\ args.enable_in
  /\ Cardinality(cloex) = 3
  /\ cfd[0] = ReadEnd("in") /\ cfd[1] = WriteEnd("out") /\ cfd[2] = WriteEnd("err")

\* C12: after any sequence of reset, release and close, and after the
\* destruction, close(2) has been called on each descriptor once for every
\* time the handle took it and neither released it nor owns it still, and
\* so never for a released one; an owned descriptor is open, and a
\* destroyed handle owns nothing.
C12_ClosedOncePerOwnedUnreleased ==
  pc \in {"handle", "dropped"} =>
    /\ \A fd \in Fds :
         nclose[fd] = hist.took[fd] - hist.gave[fd] - (IF loc.in = fd THEN 1 ELSE 0)
    /\ Defined(loc, "in") => fdt[loc.in] # None
    /\ pc = "dropped" => ~Defined(loc, "in")

\* C12 witness: the handle was destroyed after it had released one
\* descriptor, which is still open, and closed another.
C12_Witness ==
  /\ pc = "dropped"
  /\ \E fd \in Fds : hist.gave[fd] = 1 /\ hist.took[fd] = 1 /\ nclose[fd] = 0 /\ fdt[fd] # None
  /\ \E fd \in Fds : hist.gave[fd] = 0 /\ hist.took[fd] = 1 /\ nclose[fd] = 1

\* The descriptors session i holds: through the handles of its
\* RedirectPipe, through those of its remote stream set, through its drivers.
DriverFds(i) == {ses[i].drv[f] : f \in {g \in Slots : ses[i].drv[g] # UndefinedFd}}
SessionFds(i) == Owned(ses[i].loc) \cup Owned(ses[i].rem) \cup DriverFds(i)
BothAlive == \A i \in Sessions : ses[i].st \in {"built", "run", "done"}

\* C13: two sessions of one process hold disjoint descriptors, every
\* descriptor a session holds is open, and a step that leaves a session as
\* it is (a construction, a close or a transact step of the other session)
\* leaves each of that session's descriptors referring to what it did.
C13_SessionsDisjoint ==
  /\ [](SessionFds(1) \cap SessionFds(2) = {})
  /\ [](\A i \in Sessions : \A fd \in SessionFds(i) : fdt[fd] # None)
  /\ [][\A i \in Sessions :
          ses'[i] = ses[i] => \A fd \in SessionFds(i) : fdt'[fd] = fdt[fd]]_vars

\* C13 witness: both sessions alive with three pipes each, and a driver
\* of the first has closed its descriptor while the second holds its six.
C13_Witness ==
  /\ BothAlive
  /\ ses[1].st = "run" /\ Cardinality(DriverFds(1)) = 2
  /\ Cardinality(Owned(ses[1].rem)) = 3
  /\ Cardinality(SessionFds(2)) = 6
  /\ nclose # ZeroCount

\* C14, as stated: when marking a descriptor close-on-exec fails at any of
\* the three steps of the constructor, the constructor fails and the open
\* descriptors are those open before it was called.
C14_CloexecFailureLeavesNothingOpen ==
  (pc = "failed" /\ args.fault.op = "cloexec") => OpenFds = {0, 1, 2}

\* C15: install calls close on none of the descriptors 0, 1 and 2; once
\* it has returned the three handles are undefined, every descriptor above
\* 2 that a handle owned has been closed exactly once and is no longer
\* open, and no other descriptor has been closed.
C15_InstallClosesNoSlot ==
  cpc = "installed" =>
    /\ \A fd \in 0..2 : cclose[fd] = 0
    /\ \A f \in Slots : ~Defined(chd, f)
    /\ \A fd \in Fds :
         fd > 2 => cclose[fd] = (IF fd \in Owned(hd0) THEN 1 ELSE 0)
    /\ \A fd \in Owned(hd0) : fd > 2 => cfd[fd] = None

\* C15 witness: install of a stream set with one handle on a slot number,
\* released and still open, and two handles above 2, each closed once.
C15_Witness ==
  /\ cpc = "installed"
  /\ Defined(hd0, "in") /\ hd0.in <= 2 /\ cfd[hd0.in] # None
  /\ Defined(hd0, "out") /\ hd0.out > 2 /\ cclose[hd0.out] = 1
  /\ Defined(hd0, "err") /\ hd0.err > 2 /\ cclose[hd0.err] = 1

\* How many owners descriptor fd has in the parent: handles of the
\* RedirectPipe object and Active drivers.
Owners(fd) ==
  Cardinality({f \in Slots : loc[f] = fd})
    + (IF wr.st = "Active" /\ wr.fd = fd THEN 1 ELSE 0)
    + Cardinality({p \in {"out", "err"} : rd[p].st = "Active" /\ rd[p].fd = fd})

Transacted == pc \in {"done", "run2", "done2", "gone"}

\* C16: from a successful construction on, each open parent-side pipe
\* descriptor has exactly one owner, a handle before transact and a driver
\* during it, and what a handle or an Active driver owns is such a
\* descriptor; once transact has returned the three handles are undefined
\* and no parent-side descriptor is open; the parent calls close at most
\* once per descriptor, once on each descriptor a driver took, and the
\* destruction of the object closes nothing again.
C16_OneOwnerClosedOnce ==
  /\ []((pc \in {"built", "run"} \/ Transacted) =>
          /\ \A fd \in Fds : fdt[fd] \in ParentEnds => Owners(fd) = 1
          /\ \A fd \in Fds : fdt[fd] \notin ParentEnds => Owners(fd) = 0
          /\ pc = "built" => wr.st # "Active" /\ \A p \in {"out", "err"} : rd[p].st # "Active"
          /\ pc # "built" => \A f \in Slots : ~Defined(loc, f))
  /\ [](Transacted => \A fd \in Fds : fdt[fd] \notin ParentEnds)
  /\ [](\A fd \in Fds : nclose[fd] <= 1)
  /\ [](pc \in {"done", "gone"} =>
          /\ wr.st = "Closed" => nclose[wr.fd] = 1
          /\ \A p \in {"out", "err"} : rd[p].st = "Closed" => nclose[rd[p].fd] = 1)
  /\ [][pc' = "gone" => (nclose' = nclose /\ fdt' = fdt)]_vars

\* C16 witness: the object was destroyed after a transact in which the
\* writer closed its descriptor on an error and both readers theirs on
\* end-of-file, each descriptor closed once.
C16_Witness ==
  /\ pc = "gone"
  /\ wr.st = "Closed" /\ wr.ec /\ nclose[wr.fd] = 1
  /\ rd.out.st = "Closed" /\ nclose[rd.out.fd] = 1
  /\ rd.err.st = "Closed" /\ nclose[rd.err.fd] = 1

\* What a step does to an Active writer: a step that leaves the driver as
\* it is delivers nothing; a completion delivers, in order, at most
\* WriteChunk of the bytes after the cursor; the driver stays Active, its
\* cursor advanced by exactly the number of bytes delivered, if and only if
\* there was no error and fewer bytes were delivered than remained.
WriterStep ==
  wr.st = "Active" =>
    LET k == Len(sent') - Len(sent)
    IN  /\ wr' = wr => sent' = sent
        /\ wr' # wr =>
             /\ k \in 0..Min(WriteChunk, Remaining(wr))
             /\ sent' = sent \o SubSeq(input, wr.off + 1, wr.off + k)
             /\ buf'["in"] = buf["in"] \o SubSeq(input, wr.off + 1, wr.off + k)
             /\ wr'.st \in {"Active", "Closed"}
             /\ wr'.st = "Active" <=> (~wr'.ec /\ k < Remaining(wr))
             /\ wr'.st = "Active" => wr'.off = wr.off + k
             /\ wr'.st = "Closed" => wr'.off = wr.off

\* C17, as stated: at every state of the writer the bytes delivered are
\* the prefix of the input whose length is the cursor, and every step of
\* the writer is a WriterStep.
C17_DeliveredIsPrefixAtCursor ==
  /\ [](wr.st # "Undefined" => sent = Take(input, wr.off))
  /\ [][WriterStep]_vars

\* C17, amended: while the writer is Active the bytes delivered are the
\* prefix of the input whose length is the cursor; the last completion
\* closes the driver without advancing the cursor, so that once Closed the
\* bytes delivered are the whole input, or after an error the prefix at
\* the cursor; and every step of the writer is a WriterStep.
C17_DeliveredIsPrefixWhileActive ==
  /\ [](wr.st = "Active" => sent = Take(input, wr.off))
  /\ [](wr.st = "Closed" =>
          /\ wr.ec => sent = Take(input, wr.off)
          /\ ~wr.ec => (sent = input /\ Len(input) - wr.off <= WriteChunk))
  /\ [][WriterStep]_vars

\* C17 witness: the writer closed after partial completions and a last
\* completion that sent the rest: the cursor is short of the input's end.
C17_Witness ==
  /\ wr.st = "Closed" /\ ~wr.ec
  /\ sent = input
  /\ 0 < wr.off /\ wr.off < Len(input)
  /\ wr.off % WriteChunk # 0

\* The bytes the child has put into pipe p so far, in order.
Written(p) ==
  IF p = "out" THEN (IF args.combine THEN ChildAll ELSE ChildOut)
  ELSE (IF args.combine THEN <<>> ELSE ChildErr)

\* What a step does to the Active reader of pipe p: a step that leaves the
\* driver as it is takes no byte from its pipe; a successful read appends
\* the first bytes of the pipe, at least one and at most ReadChunk, to the
\* accumulator and leaves the driver Active; the driver closes only at
\* end-of-file, its accumulator as it was.
ReaderStep(p) ==
  rd[p].st = "Active" =>
    LET k == Len(rd'[p].data) - Len(rd[p].data)
    IN  /\ rd'[p] = rd[p] =>
             /\ Len(buf'[p]) >= Len(buf[p])
             /\ Take(buf'[p], Len(buf[p])) = buf[p]
        /\ (rd'[p] # rd[p] /\ rd'[p].st = "Active") =>
             /\ k \in 1..ReadChunk
             /\ rd'[p].data = rd[p].data \o Take(buf[p], k)
             /\ buf'[p] = Drop(buf[p], k)
        /\ (rd'[p] # rd[p] /\ rd'[p].st # "Active") =>
             /\ rd'[p].st = "Closed"
             /\ rd'[p].data = rd[p].data
             /\ AtEof(p) /\ buf'[p] = buf[p]

\* C18: what a reader has accumulated, followed by what its pipe still
\* holds, is what the child has written to that pipe, in order; a Closed
\* reader's value is everything the child wrote to it; and every step of a
\* reader is a ReaderStep.
C18_ReaderConcatenatesChunks ==
  /\ [](\A p \in {"out", "err"} :
          rd[p].st # "Undefined" => rd[p].data \o buf[p] = Written(p))
  /\ [](\A p \in {"out", "err"} :
          rd[p].st = "Closed" => rd[p].data = Written(p))
  /\ [][\A p \in {"out", "err"} : ReaderStep(p)]_vars

\* C18 witness: both readers closed, the output reader with a value of
\* several chunks that holds both byte values.
C18_Witness ==
  /\ rd.out.st = "Closed" /\ rd.err.st = "Closed"
  /\ Len(rd.out.data) > 2 * ReadChunk
  /\ \E i, j \in 1..Len(rd.out.data) : rd.out.data[i] # rd.out.data[j]
  /\ rd.out.data = Written("out")

InTransact == pc \in {"run", "run2"}

\* C19: transact makes a driver Active exactly when its handle is defined;
\* a driver built on an undefined handle stays as it is, sends nothing and
\* has accumulated nothing; and a transact on an object whose handles are
\* all undefined, default-constructed or used by an earlier transact, has
\* no Active driver, can return at once, changes no descriptor of the
\* parent and returns an empty output and an empty error.
C19_UndefinedDriversAreInert ==
  /\ [][(~InTransact /\ InTransact') =>
          /\ wr'.st = (IF Defined(loc, "in") THEN "Active" ELSE "Undefined")
          /\ \A p \in {"out", "err"} :
               rd'[p].st = (IF Defined(loc, p) THEN "Active" ELSE "Undefined")
          /\ fdt' = fdt /\ nclose' = nclose]_vars
  /\ [][(InTransact /\ wr.st = "Undefined") => (wr' = wr /\ sent' = sent)]_vars
  /\ [][\A p \in {"out", "err"} :
          (InTransact /\ rd[p].st = "Undefined") => rd'[p] = rd[p]]_vars
  /\ [](\A p \in {"out", "err"} : rd[p].st = "Undefined" => rd[p].data = <<>>)
  /\ [](pc \in {"empty", "done", "done2"} => \A f \in Slots : ~Defined(loc, f))
  /\ [](pc = "run2" =>
          /\ wr.st = "Undefined"
          /\ \A p \in {"out", "err"} : rd[p].st = "Undefined"
          /\ ENABLED TransactReturn)
  /\ [][pc = "run2" =>
          /\ pc' \in {"run2", "done2"}
          /\ fdt' = fdt /\ cloex' = cloex /\ nclose' = nclose]_vars
  /\ [](pc = "done2" => res2 = NoResult)

\* C19 witness: a second transact on an object whose first transact had
\* sent input and returned output has returned an empty result.
C19_Witness ==
  /\ pc = "done2"
  /\ sent # <<>> /\ res.out # <<>>
  /\ res2 = NoResult
  /\ nclose # ZeroCount

\* C19 witness, the other case: a transact on a default-constructed object
\* has returned an empty result, the descriptors being those of the start.
C19_WitnessDefault ==
  /\ pc = "done2"
  /\ made = {} /\ fdt = StdTable /\ nclose = ZeroCount
  /\ res2 = NoResult

\* C20: a reader is Closed only when no descriptor refers to the write end
\* of its pipe, neither in the running child nor in the parent, where the
\* remote stream set holds one until it is closed; so while the parent holds
\* the remote's handle of a reader's pipe during transact that reader stays
\* Active, and a transact begun with the remote's handles open never
\* returns, the child having exited or not.
C20_RemoteHandleHoldsOffEof ==
  /\ [](\A p \in {"out", "err"} :
          rd[p].st = "Closed" =>
            /\ \A fd \in Fds : fdt[fd] # WriteEnd(p)
            /\ ChildLive => \A fd \in Fds : cfd[fd] # WriteEnd(p)
            /\ Defined(rem, p) => fdt[rem[p]] # WriteEnd(p))
  /\ [](\A p \in {"out", "err"} :
          (pc = "run" /\ Defined(rem, p) /\ rd[p].st # "Undefined")
            => rd[p].st = "Active")
  /\ [][(pc = "run" /\ ~RemoteClosed) => pc' = "run"]_vars

\* C20 witness: the child has exited, the writer is done and the output
\* pipe is empty, yet the output reader cannot complete and transact cannot
\* return, the parent holding the remote's output handle.
C20_Witness ==
  /\ pc = "run" /\ cpc = "exited"
  /\ Defined(rem, "out") /\ fdt[rem.out] = WriteEnd("out")
  /\ wr.st # "Active" /\ buf.out = <<>>
  /\ rd.out.st = "Active"
  /\ ~ENABLED ReadSome("out")
  /\ ~ENABLED TransactReturn

====
